---- MODULE Spec2Model ----
(***************************************************************************)
(* train_model.py of geo-deep-learning as a state machine: main's setup    *)
(* (class discovery, logs, hyperparameters, sample counts, data loaders),  *)
(* the epoch loop (train, evaluation on 'val', checkpoint), the reload of  *)
(* the checkpoint and the evaluation on 'tst'.                             *)
(*                                                                         *)
(* The configuration (params) and the environment (directories, bucket    *)
(* listings, hdf5 archives, per-batch losses) are inputs.  Each is chosen *)
(* with \E by the action of the source lines that read it and is kept     *)
(* from then on; the sets they are chosen from make an input profile.     *)
(* Spec explores the setup over every input with a short epoch loop;      *)
(* SpecLoop explores the epoch loop over every input with a plain setup.  *)
(* Losses are integers; an average is the pair <<sum, count>> and is      *)
(* compared by cross-multiplication.                                      *)
(***************************************************************************)
EXTENDS Integers, Sequences, FiniteSets, TLC

\* ---------------------------------------------------------------- bounds
MaxEpochs == 2
MaxSamples == 3
MaxBatchSize == 2
MaxClasses == 2
MaxInterval == 2
MaxStepSize == 2

\* Per-batch loss values the criterion may return (one below, one above 999).
LossVals == {1, 1000}

\* ------------------------------------------------------------- constants
\* best_loss = 999
InitialBestLoss == 999

None == 0 - 1
Splits == <<"trn", "val", "tst">>
Tasks == {"classification", "segmentation", "detection"}
DirStates == {"absent", "empty", "used"}

\* --------------------------------------------------------------- helpers
\* tsv_line(ep_idx, phase, index, len(loader), time): the time column is left out.
Row(e, ph, i, n) == <<e, ph, i, n>>
Header == <<"ep_idx", "phase", "iter", "i_p_ep">>
\* What a progress.log left by an earlier run in the same directory holds.
OldLog == <<Header, Row(0, "trn", 0, 1)>>

\* Rationals as <<numerator, denominator>>, denominator > 0.
Lt(a, b) == a[1] * b[2] < b[1] * a[2]
Eq(a, b) == a[1] * b[2] = b[1] * a[2]

\* len(DataLoader(dataset, batch_size, shuffle=True)): drop_last is False.
NumBatches(n, b) == (n + b - 1) \div b
\* Number of samples in batch i of a loader over n samples.
BatchLen(n, b, i) == IF (i + 1) * b <= n THEN b ELSE n - i * b

\* A directory listing: the names in any order, none twice.
Listings == UNION {{s \in [1..k -> 1..MaxClasses] :
                      \A i, j \in 1..k : i # j => s[i] # s[j]} : k \in 0..MaxClasses}
\* classes.sort()
SortClasses(s) == SortSeq(s, LAMBDA a, b : a < b)

\* create_metrics_dict(num_classes)['loss']: a fresh running average.
FreshMeter == [sum |-> 0, count |-> 0, avg |-> <<0, 1>>]
\* Metric.update(val, weight)
MeterUpdate(m, val, weight) ==
    [sum |-> m.sum + val * weight,
     count |-> m.count + weight,
     avg |-> <<m.sum + val * weight, m.count + weight>>]

\* "No loss yet", for the record of the losses seen.
NoLoss == <<0, 0>>
IsLoss(v) == v[2] > 0

NoCheckpoint == [exists |-> FALSE, own |-> FALSE, epoch |-> 0, best_loss |-> <<0, 1>>]
\* A checkpoint.pth.tar left by an earlier run in the same directory.
OldCheckpoint == [exists |-> TRUE, own |-> FALSE, epoch |-> 0, best_loss |-> <<1, 1>>]

VARIABLES
    pc,             \* position in main
    err,            \* the exception that ended the run, "" if none
    task, bucket_name, num_classes, batch_size,   \* params['global'], batch size
    dirs,           \* state of the configured output directory ("cfg") and of
                    \* the directory literally named 'output_path' ("lit")
    output_path,    \* which of the two main's output_path names
    startDir,       \* state of the configured output directory when main started
    classes_csv,    \* content of classes.csv (<<>> when not written)
    classesWrites,  \* number of times classes.csv was opened for writing
    classesUploads, \* number of uploads of classes.csv
    s3Idx,          \* loop index of download_s3_files over trn, val, tst
    progress,       \* rows of progress.log
    logKept,        \* progress.log existed when main looked for it
    class_weights, criterion, optimizer, lr_scheduler,  \* set_hyperparameters
    num_epochs, batch_metrics,
    step_default,   \* the default of StepLR's step_size in the framework's
                    \* signature (None: it is not an integer)
    step_cfg,       \* params['training']['step_size'] as read (None: unset)
    step_size,      \* the step size the scheduler is constructed with
    num_samples, nsIdx, cfg_samples, file_num_samples,  \* get_num_samples
    dsLen,          \* len(dataset) of the three loaders
    epoch, index,   \* epoch loop, batch loop
    meter,          \* the running loss average of the phase in progress
    seenSum, seenCnt, \* sum of loss * samples, and samples, over the batches of
                      \* the phase in progress, as the loader yielded them
    metricsAt,      \* batch indices on which report_classification ran
    best_loss,      \* the best-loss tracker
    lastVal,        \* val_loss of the epoch, from its evaluation on 'val' until
                    \* the next epoch begins or the loop ends (NoLoss otherwise)
    valMin,         \* least val_loss of the epochs before that one
    valMinEpoch,    \* the earliest of those epochs whose val_loss is valMin
    saved,          \* checkpoint writes of the epoch of lastVal (None: undecided)
    checkpoint,     \* content of checkpoint.pth.tar
    ckptWrites, ckptUploads, logSyncs,
    optSteps, schedSteps, trnBatches,
    restores, model_from     \* load_from_checkpoint after the loop

vars == <<pc, err, task, bucket_name, num_classes, batch_size, dirs, output_path,
          startDir, classes_csv, classesWrites, classesUploads, s3Idx, progress,
          logKept, class_weights, criterion, optimizer, lr_scheduler, num_epochs,
          batch_metrics, step_default, step_cfg, step_size, num_samples, nsIdx, cfg_samples, file_num_samples, dsLen,
          epoch, index, meter, seenSum, seenCnt, metricsAt, best_loss, lastVal,
          valMin, valMinEpoch, saved, checkpoint, ckptWrites, ckptUploads, logSyncs, optSteps,
          schedSteps, trnBatches, restores, model_from>>

\* Groups of variables, for UNCHANGED.
cfgVars == <<task, bucket_name, num_classes, batch_size>>
fsVars == <<dirs, output_path, startDir, classes_csv, classesWrites,
            classesUploads, s3Idx>>
logVars == <<progress, logKept>>
hypVars == <<class_weights, criterion, optimizer, lr_scheduler, num_epochs,
             batch_metrics, step_default, step_cfg, step_size>>
nsVars == <<num_samples, nsIdx, cfg_samples, file_num_samples, dsLen>>
loopVars == <<epoch, index, meter, seenSum, seenCnt, metricsAt>>
ckVars == <<best_loss, lastVal, valMin, valMinEpoch, saved, checkpoint, ckptWrites,
            ckptUploads, logSyncs>>
stepVars == <<optSteps, schedSteps, trnBatches>>
endVars == <<restores, model_from>>

\* ---------------------------------------------------------- input profiles
\* Every input of the setup; one epoch at most, one loss value.
SetupProfile ==
    [tasks |-> Tasks, buckets |-> BOOLEAN, classCounts |-> 1..MaxClasses,
     dirStates |-> DirStates, litStates |-> DirStates, listings |-> Listings,
     weights |-> {None} \cup 0..MaxClasses,
     epochs |-> 0..1, intervals |-> {None},
     cfgCounts |-> {None} \cup 0..MaxSamples,
     availCounts |-> {None} \cup 0..MaxSamples,
     imageCounts |-> {1}, batchSizes |-> {1},
     losses |-> [trn |-> {1}, val |-> {1}, tst |-> {1}],
     stepDefaults |-> {None}, stepSizes |-> {None},
     outputTxt |-> BOOLEAN]

\* Every input of the epoch loop, but for the losses of the test batches, which
\* only the test report holds; a run whose setup goes through.
LoopProfile ==
    [tasks |-> {"classification", "segmentation"}, buckets |-> BOOLEAN, classCounts |-> {1},
     dirStates |-> {"empty", "used"}, litStates |-> {"empty", "used"},
     listings |-> {<<1>>},
     weights |-> {None},
     epochs |-> 0..MaxEpochs, intervals |-> {None} \cup 1..MaxInterval,
     cfgCounts |-> {None},
     availCounts |-> 0..MaxSamples,
     imageCounts |-> {1}, batchSizes |-> 1..MaxBatchSize,
     losses |-> [trn |-> LossVals, val |-> LossVals, tst |-> {1}],
     stepDefaults |-> {None}, stepSizes |-> {None},
     outputTxt |-> {TRUE}]

\* Every input of the scheduler's step size, in a run whose setup goes through;
\* one loss value.
SchedProfile ==
    [tasks |-> {"classification", "segmentation"}, buckets |-> BOOLEAN, classCounts |-> {1},
     dirStates |-> {"empty"}, litStates |-> {"empty"},
     listings |-> {<<1>>},
     weights |-> {None},
     epochs |-> 0..MaxEpochs, intervals |-> {None},
     cfgCounts |-> {None},
     availCounts |-> 0..MaxSamples,
     imageCounts |-> {1}, batchSizes |-> {1},
     losses |-> [trn |-> {1}, val |-> {1}, tst |-> {1}],
     stepDefaults |-> {None, 1}, stepSizes |-> {None} \cup 1..MaxStepSize,
     outputTxt |-> {TRUE}]

Init ==
    /\ pc = "start" /\ err = ""
    /\ task = "" /\ bucket_name = FALSE /\ num_classes = 0 /\ batch_size = 0
    /\ dirs = [d \in {"cfg", "lit"} |-> "absent"]
    /\ output_path = "cfg" /\ startDir = "absent"
    /\ classes_csv = <<>> /\ classesWrites = 0 /\ classesUploads = 0 /\ s3Idx = 1
    /\ progress = <<>> /\ logKept = FALSE
    /\ class_weights = None /\ criterion = FALSE /\ optimizer = FALSE
    /\ lr_scheduler = FALSE /\ num_epochs = 0 /\ batch_metrics = None
    /\ step_default = None /\ step_cfg = None /\ step_size = None
    /\ num_samples = [s \in {"trn", "val", "tst"} |-> 0] /\ nsIdx = 1
    /\ cfg_samples = None /\ file_num_samples = None
    /\ dsLen = [s \in {"trn", "val", "tst"} |-> 0]
    /\ epoch = 0 /\ index = 0 /\ meter = FreshMeter
    /\ seenSum = 0 /\ seenCnt = 0 /\ metricsAt = {}
    /\ best_loss = <<0, 1>> /\ lastVal = NoLoss /\ valMin = NoLoss /\ saved = None
    /\ valMinEpoch = None
    /\ checkpoint = NoCheckpoint
    /\ ckptWrites = 0 /\ ckptUploads = 0 /\ logSyncs = 0
    /\ optSteps = 0 /\ schedSteps = 0 /\ trnBatches = 0
    /\ restores = 0 /\ model_from = None

\* An uncaught exception ends the run.
Raise(e) == pc' = "aborted" /\ err' = e
Goto(l) == pc' = l /\ err' = err

\* ------------------------------------------------------------------ setup
\* Mutant: no else branch, any task is taken for a segmentation.
TaskSupportedAny(t) == TRUE
\* The else branches of download_s3_files (lines 133-134) and of
\* create_dataloader (lines 170-171) raise ValueError for any other task.
TaskSupported(t) == t \in {"classification", "segmentation"}

\* main, lines 260-275: the configuration's global group and the batch size;
\* the state of the configured output directory is the environment's.
Start(P) ==
    /\ pc = "start"
    /\ \E t \in P.tasks, bn \in P.buckets, nc \in P.classCounts,
          bs \in P.batchSizes, d \in P.dirStates :
         /\ task' = t /\ bucket_name' = bn /\ num_classes' = nc /\ batch_size' = bs
         /\ dirs' = [dirs EXCEPT !["cfg"] = d]
         /\ startDir' = d
    /\ Goto(IF bucket_name' THEN "s3_mkdir"
            ELSE IF task' = "classification" THEN "local_classes" ELSE "log_init")
    /\ UNCHANGED <<output_path, classes_csv, classesWrites, classesUploads,
                   s3Idx, logVars, hypVars, nsVars, loopVars, ckVars, stepVars,
                   endVars>>

\* os.mkdir(output_path), FileExistsError passed over.
Mkdir(d) == IF d = "absent" THEN "empty" ELSE d

\* download_s3_files, lines 109-116 and the task test of lines 118, 125, 133.
S3Mkdir ==
    /\ pc = "s3_mkdir"
    /\ dirs' = [dirs EXCEPT !["cfg"] = Mkdir(dirs["cfg"])]
    /\ IF ~TaskSupported(task) THEN Raise("ValueError: task")
       ELSE IF task = "classification" THEN Goto("s3_classes")
       ELSE Goto("s3_samples")
    /\ UNCHANGED <<cfgVars, output_path, startDir, classes_csv, classesWrites,
                   classesUploads, s3Idx, logVars, hypVars, nsVars, loopVars,
                   ckVars, stepVars, endVars>>

\* Opening a file of directory d for writing: the directory must exist.
CanOpenIn(d) == dirs[d] # "absent"

\* One pass of the loop of download_s3_files, lines 119-122:
\* get_s3_classification_images (lines 63-85) for the split, then the upload.
S3Classes(P) ==
    /\ pc = "s3_classes"
    /\ \E listing \in P.listings :
         LET classes == SortClasses(listing) IN
         IF num_classes # Len(classes)
         THEN /\ Raise("AssertionError")
              /\ UNCHANGED <<classes_csv, classesWrites, classesUploads, s3Idx>>
         ELSE /\ classes_csv' = classes
              /\ classesWrites' = classesWrites + 1
              /\ classesUploads' = classesUploads + 1
              /\ s3Idx' = s3Idx + 1
              /\ Goto(IF s3Idx = Len(Splits) THEN "s3_return" ELSE "s3_classes")
    /\ UNCHANGED <<cfgVars, dirs, output_path, startDir, logVars, hypVars, nsVars,
                   loopVars, ckVars, stepVars, endVars>>

\* download_s3_files, lines 125-132: the three archives are fetched.
S3Samples ==
    /\ pc = "s3_samples"
    /\ Goto("s3_return")
    /\ UNCHANGED <<cfgVars, fsVars, logVars, hypVars, nsVars, loopVars, ckVars,
                   stepVars, endVars>>

\* download_s3_files, line 136 with line 110, and main, line 269: output_path is
\* rebound to the directory literally named 'output_path', whatever its state.
S3Return(P) ==
    /\ pc = "s3_return"
    /\ output_path' = "lit"
    /\ \E d \in P.litStates : dirs' = [dirs EXCEPT !["lit"] = d]
    /\ Goto("log_init")
    /\ UNCHANGED <<cfgVars, startDir, classes_csv, classesWrites,
                   classesUploads, s3Idx, logVars, hypVars, nsVars, loopVars,
                   ckVars, stepVars, endVars>>

\* get_local_classes, lines 88-96 (main, lines 275-276).
GetLocalClasses(P) ==
    /\ pc = "local_classes"
    /\ \E listing \in P.listings :
         LET classes == SortClasses(listing) IN
         IF num_classes # Len(classes)
         THEN /\ Raise("AssertionError")
              /\ UNCHANGED <<classes_csv, classesWrites>>
         ELSE IF ~CanOpenIn(output_path)
         THEN /\ Raise("FileNotFoundError: classes.csv")
              /\ UNCHANGED <<classes_csv, classesWrites>>
         ELSE /\ classes_csv' = classes
              /\ classesWrites' = classesWrites + 1
              /\ Goto("log_init")
    /\ UNCHANGED <<cfgVars, dirs, output_path, startDir, classesUploads, s3Idx,
                   logVars, hypVars, nsVars, loopVars, ckVars, stepVars, endVars>>

\* main, lines 278-288: best_loss, the header of progress.log unless the file is
\* there already, the three loggers.  A directory used by an earlier run holds
\* that run's progress.log and checkpoint.pth.tar.
LogInit ==
    /\ pc = "log_init"
    /\ IF ~CanOpenIn(output_path)
       THEN /\ Raise("FileNotFoundError: progress.log")
            /\ UNCHANGED <<progress, logKept, checkpoint>>
       ELSE /\ logKept' = (dirs[output_path] = "used")
            /\ progress' = IF dirs[output_path] = "used" THEN OldLog ELSE <<Header>>
            /\ checkpoint' = IF dirs[output_path] = "used" THEN OldCheckpoint
                             ELSE NoCheckpoint
            /\ Goto("hyper")
    /\ best_loss' = <<InitialBestLoss, 1>>
    /\ UNCHANGED <<cfgVars, fsVars, hypVars, nsVars, loopVars, lastVal, valMin,
                   valMinEpoch, saved, ckptWrites, ckptUploads, logSyncs, stepVars, endVars>>

\* Mutant: only too many weights are refused.
VerifyWeightsFewer(nc, weights) == nc < weights
\* verify_weights, lines 34-41: TRUE when it raises.
VerifyWeightsFails(nc, weights) == nc # weights

\* Mutant: the replacement of a default that is not an integer is num_epochs.
FallbackStepSizeNoMargin(ne) == ne
\* set_hyperparameters, line 222: what replaces a default that is not an integer.
FallbackStepSize(ne) == ne + 1
\* set_hyperparameters, lines 220-222: the step size before the configuration
\* is looked at; isinstance(step_size, int) fails for a default of None.
DefaultStepSize(default, ne) ==
    IF default = None THEN FallbackStepSize(ne) ELSE default
\* set_hyperparameters, lines 234-235: the configured step size, when there is
\* one, takes the place of the default.
ResolvedStepSize(default, cfg, ne) ==
    IF cfg # None THEN cfg ELSE DefaultStepSize(default, ne)

\* set_hyperparameters, lines 213-237: defaults, then the configuration's values;
\* class_weights is the number of weights given, None when none are.  The
\* ValueError of line 227 leaves before the configured step size is read.
HyperConfig(P) ==
    /\ pc = "hyper"
    /\ \E cw \in P.weights, ne \in P.epochs, bm \in P.intervals,
          sd \in P.stepDefaults, ss \in P.stepSizes :
         /\ class_weights' = cw /\ num_epochs' = ne /\ batch_metrics' = bm
         /\ step_default' = sd
         /\ IF cw # None /\ VerifyWeightsFails(num_classes, cw)
            THEN /\ step_cfg' = None
                 /\ step_size' = DefaultStepSize(sd, ne)
                 /\ Raise("ValueError: class weights")
            ELSE /\ step_cfg' = ss
                 /\ step_size' = ResolvedStepSize(sd, ss, ne)
                 /\ Goto("hyper_build")
    /\ UNCHANGED <<cfgVars, fsVars, logVars, criterion, optimizer, lr_scheduler,
                   nsVars, loopVars, ckVars, stepVars, endVars>>

\* set_hyperparameters, lines 239-251: the loss function, the optimizer and the
\* scheduler are constructed.
HyperBuild ==
    /\ pc = "hyper_build"
    /\ criterion' = TRUE /\ optimizer' = TRUE /\ lr_scheduler' = TRUE
    /\ Goto("num_samples")
    /\ UNCHANGED <<cfgVars, fsVars, logVars, class_weights, num_epochs,
                   batch_metrics, step_default, step_cfg, step_size, nsVars,
                   loopVars, ckVars, stepVars, endVars>>

\* get_num_samples, line 189: the truth value of the configured count.
Configured(c) == c # None /\ c # 0
\* Mutant: a configured count equal to the number available is refused.
ExceedsOrEquals(c, avail) == c >= avail
\* get_num_samples, line 193: TRUE when it raises IndexError.
Exceeds(c, avail) == c > avail
\* get_num_samples, lines 189-198: the count of one split.
ResolvedSamples(c, avail) == IF Configured(c) THEN c ELSE avail

\* One pass of the loop of get_num_samples, lines 188-198: the configured count
\* of the split and the number of samples in its archive are read (None: the
\* count is not set; the archive cannot be opened).
GetNumSamples(P) ==
    /\ pc = "num_samples"
    /\ \E c \in P.cfgCounts, avail \in P.availCounts :
         /\ cfg_samples' = c /\ file_num_samples' = avail
         /\ IF avail = None
            THEN /\ Raise("OSError")
                 /\ num_samples' = IF Configured(c)
                                   THEN [num_samples EXCEPT ![Splits[nsIdx]] = c]
                                   ELSE num_samples
                 /\ nsIdx' = nsIdx
            ELSE /\ num_samples' = [num_samples EXCEPT
                                      ![Splits[nsIdx]] = ResolvedSamples(c, avail)]
                 /\ IF Configured(c) /\ Exceeds(c, avail)
                    THEN Raise("IndexError") /\ nsIdx' = nsIdx
                    ELSE /\ nsIdx' = nsIdx + 1
                         /\ Goto(IF nsIdx = Len(Splits) THEN "dataloader"
                                 ELSE "num_samples")
    /\ UNCHANGED <<cfgVars, fsVars, logVars, hypVars, dsLen, loopVars, ckVars,
                   stepVars, endVars>>

\* create_dataloader, lines 139-177 (main, lines 292-300): get_num_samples has
\* returned; a segmentation dataset holds num_samples[split] samples, an image
\* folder as many as it has images, and num_samples is not read for it.
CreateDataloader(P) ==
    /\ pc = "dataloader"
    /\ cfg_samples' = None /\ file_num_samples' = None
    /\ IF ~TaskSupported(task)
       THEN Raise("ValueError: task") /\ UNCHANGED <<dsLen, num_samples>>
       ELSE IF task = "classification"
       THEN /\ \E l \in [{"trn", "val", "tst"} -> P.imageCounts] : dsLen' = l
            /\ num_samples' = [s \in {"trn", "val", "tst"} |-> 0]
            /\ Goto("epoch_head")
       ELSE /\ dsLen' = num_samples
            /\ UNCHANGED num_samples
            /\ Goto("epoch_head")
    /\ UNCHANGED <<cfgVars, fsVars, logVars, hypVars, nsIdx, loopVars, ckVars,
                   stepVars, endVars>>

\* ------------------------------------------------------------- epoch loop
\* len(train_loader), len(val_dataloader), len(tst_dataloader)
LoaderLen(split) == NumBatches(dsLen[split], batch_size)

\* Mutant: the file is opened with 'w', which truncates it.
AppendRowTruncating(log, row) == <<row>>
\* progress_log.open('a', buffering=1).write(...), lines 396 and 451.
AppendRow(log, row) == Append(log, row)
\* The weight train and evaluation give a batch's loss, lines 421 and 474:
\* the configured batch_size, whatever the number of samples in the batch.
UpdateWeight(bs, samples) == bs
\* optimizer.step(), line 424
OptimizerStep(n) == n + 1
\* Mutant: the scheduler is never stepped.
SchedulerStepSkipped(n) == n
\* scheduler.step(), line 426
SchedulerStep(n) == n + 1
\* StepLR: the number of times the learning rate has been multiplied by gamma
\* once the scheduler has been stepped n times.
StepLRDecays(n, size) == n \div size

\* The least of the losses a and b, NoLoss standing for none.
MinLoss(a, b) == IF ~IsLoss(a) THEN b ELSE IF ~IsLoss(b) THEN a
                 ELSE IF Lt(b, a) THEN b ELSE a

\* The earliest epoch of the least loss, once the loss b of epoch e joins the
\* losses whose least is a, first attained at epoch at.
MinLossEpoch(a, at, b, e) ==
    IF ~IsLoss(b) THEN at
    ELSE IF ~IsLoss(a) \/ Lt(b, a) THEN e ELSE at

\* main, lines 302-316, and train, lines 392-393: the next epoch begins.
EpochBegin ==
    /\ pc = "epoch_head"
    /\ epoch < num_epochs
    /\ meter' = FreshMeter /\ seenSum' = 0 /\ seenCnt' = 0 /\ index' = 0
    /\ valMin' = MinLoss(valMin, lastVal) /\ lastVal' = NoLoss /\ saved' = None
    /\ valMinEpoch' = MinLossEpoch(valMin, valMinEpoch, lastVal, epoch - 1)
    /\ Goto("trn")
    /\ UNCHANGED <<cfgVars, fsVars, logVars, hypVars, nsVars, epoch, metricsAt,
                   best_loss, checkpoint, ckptWrites, ckptUploads, logSyncs,
                   stepVars, endVars>>

\* train, lines 395-424: one batch.
TrainBatch(P) ==
    /\ pc = "trn"
    /\ index < LoaderLen("trn")
    /\ \E loss \in P.losses["trn"] :
         LET samples == BatchLen(dsLen["trn"], batch_size, index) IN
         /\ meter' = MeterUpdate(meter, loss, UpdateWeight(batch_size, samples))
         /\ seenSum' = seenSum + loss * samples
         /\ seenCnt' = seenCnt + samples
    /\ progress' = AppendRow(progress, Row(epoch, "trn", index, LoaderLen("trn")))
    /\ optSteps' = OptimizerStep(optSteps)
    /\ trnBatches' = trnBatches + 1
    /\ index' = index + 1
    /\ Goto("trn")
    /\ UNCHANGED <<cfgVars, fsVars, logKept, hypVars, nsVars, epoch, metricsAt,
                   ckVars, schedSteps, endVars>>

\* train, lines 426-428: after the last batch.
TrainEnd ==
    /\ pc = "trn"
    /\ index = LoaderLen("trn")
    /\ schedSteps' = SchedulerStep(schedSteps)
    /\ Goto("trn_done")
    /\ UNCHANGED <<cfgVars, fsVars, logVars, hypVars, nsVars, loopVars, ckVars,
                   optSteps, trnBatches, endVars>>

\* main, lines 317-327, and evaluation, lines 447-448.
ValBegin ==
    /\ pc = "trn_done"
    /\ meter' = FreshMeter /\ seenSum' = 0 /\ seenCnt' = 0 /\ index' = 0
    /\ metricsAt' = {}
    /\ Goto("val")
    /\ UNCHANGED <<cfgVars, fsVars, logVars, hypVars, nsVars, epoch, ckVars,
                   stepVars, endVars>>

\* Mutant: every bm-th batch counted from one.
ComputesMetricsCountingFromOne(dataset, bm, i) ==
    IF dataset = "val" /\ bm # None THEN (i + 1) % bm = 0
    ELSE dataset = "tst"
\* evaluation, lines 476-483: whether report_classification runs on the batch.
ComputesMetrics(dataset, bm, i) ==
    IF dataset = "val" /\ bm # None THEN i % bm = 0
    ELSE dataset = "tst"

\* The ep_idx main passes to evaluation, lines 325 and 361.
EvalEpIdx(dataset) == IF dataset = "val" THEN epoch ELSE num_epochs

\* evaluation, lines 450-483: one batch of the split named by pc.
EvalBatch(P) ==
    /\ pc \in {"val", "tst"}
    /\ index < LoaderLen(pc)
    /\ \E loss \in P.losses[pc] :
         LET samples == BatchLen(dsLen[pc], batch_size, index) IN
         /\ meter' = MeterUpdate(meter, loss, UpdateWeight(batch_size, samples))
         /\ seenSum' = seenSum + loss * samples
         /\ seenCnt' = seenCnt + samples
    /\ progress' = AppendRow(progress,
                             Row(EvalEpIdx(pc), pc, index, LoaderLen(pc)))
    /\ metricsAt' = IF ComputesMetrics(pc, batch_metrics, index)
                    THEN metricsAt \cup {index} ELSE metricsAt
    /\ index' = index + 1
    /\ Goto(pc)
    /\ UNCHANGED <<cfgVars, fsVars, logKept, hypVars, nsVars, epoch, ckVars,
                   stepVars, endVars>>

\* evaluation, lines 485-491, and main, lines 328-332: val_loss is the average.
ValEnd ==
    /\ pc = "val"
    /\ index = LoaderLen("val")
    /\ lastVal' = meter.avg
    /\ Goto("ckpt")
    /\ UNCHANGED <<cfgVars, fsVars, logVars, hypVars, nsVars, loopVars, best_loss,
                   valMin, valMinEpoch, saved, checkpoint, ckptWrites, ckptUploads,
                   logSyncs, stepVars, endVars>>

\* Mutant: a validation loss equal to the best one is saved too.
ImprovesOrEquals(val_loss, best) == ~Lt(best, val_loss)
\* main, line 334
Improves(val_loss, best) == Lt(val_loss, best)

\* main, lines 334-351: the checkpoint is written when val_loss improves on
\* best_loss, and uploaded with the logs when a bucket is configured.
Checkpoint ==
    /\ pc = "ckpt"
    /\ IF Improves(lastVal, best_loss)
       THEN /\ best_loss' = lastVal
            /\ checkpoint' = [exists |-> TRUE, own |-> TRUE, epoch |-> epoch,
                              best_loss |-> lastVal]
            /\ ckptWrites' = ckptWrites + 1
            /\ saved' = 1
            /\ ckptUploads' = IF bucket_name THEN ckptUploads + 1 ELSE ckptUploads
       ELSE /\ saved' = 0
            /\ UNCHANGED <<best_loss, checkpoint, ckptWrites, ckptUploads>>
    /\ logSyncs' = IF bucket_name THEN logSyncs + 1 ELSE logSyncs
    /\ epoch' = epoch + 1
    /\ Goto("epoch_head")
    /\ UNCHANGED <<cfgVars, fsVars, logVars, hypVars, nsVars, index, meter,
                   seenSum, seenCnt, metricsAt, lastVal, valMin, valMinEpoch,
                   stepVars, endVars>>

\* load_from_checkpoint(filename, model) of utils: it cannot read a file that
\* is not there.
LoadFromCheckpointFails(c) == ~c.exists

\* main, lines 353-364, and evaluation, lines 447-448: the loop is over and the
\* checkpoint file is loaded back.
Restore ==
    /\ pc = "epoch_head"
    /\ epoch >= num_epochs
    /\ valMin' = MinLoss(valMin, lastVal) /\ lastVal' = NoLoss /\ saved' = None
    /\ valMinEpoch' = MinLossEpoch(valMin, valMinEpoch, lastVal, epoch - 1)
    /\ IF LoadFromCheckpointFails(checkpoint)
       THEN /\ Raise("FileNotFoundError: checkpoint.pth.tar")
            /\ UNCHANGED <<restores, model_from, loopVars>>
       ELSE /\ restores' = restores + 1
            /\ model_from' = checkpoint.epoch
            /\ meter' = FreshMeter /\ seenSum' = 0 /\ seenCnt' = 0 /\ index' = 0
            /\ metricsAt' = {}
            /\ UNCHANGED epoch
            /\ Goto("tst")
    /\ UNCHANGED <<cfgVars, fsVars, logVars, hypVars, nsVars, best_loss,
                   checkpoint, ckptWrites, ckptUploads, logSyncs, stepVars>>

\* evaluation, lines 485-491, and main, lines 365-373: the test report is logged
\* and, with a bucket, output.txt and the checkpoint are uploaded.
TstEnd(P) ==
    /\ pc = "tst"
    /\ index = LoaderLen("tst")
    /\ IF bucket_name
       THEN \E have \in P.outputTxt :
              IF have THEN ckptUploads' = ckptUploads + 1 /\ Goto("done")
              ELSE Raise("FileNotFoundError: output.txt") /\ UNCHANGED ckptUploads
       ELSE Goto("done") /\ UNCHANGED ckptUploads
    /\ UNCHANGED <<cfgVars, fsVars, logVars, hypVars, nsVars, loopVars, best_loss,
                   lastVal, valMin, valMinEpoch, saved, checkpoint, ckptWrites,
                   logSyncs, stepVars, endVars>>

Step(P) ==
    \/ Start(P)
    \/ S3Mkdir
    \/ S3Classes(P)
    \/ S3Samples
    \/ S3Return(P)
    \/ GetLocalClasses(P)
    \/ LogInit
    \/ HyperConfig(P)
    \/ HyperBuild
    \/ GetNumSamples(P)
    \/ CreateDataloader(P)
    \/ EpochBegin
    \/ TrainBatch(P)
    \/ TrainEnd
    \/ ValBegin
    \/ EvalBatch(P)
    \/ ValEnd
    \/ Checkpoint
    \/ Restore
    \/ TstEnd(P)

Next == Step(SetupProfile)
NextLoop == Step(LoopProfile)
NextSched == Step(SchedProfile)

Spec == Init /\ [][Next]_vars
SpecLoop == Init /\ [][NextLoop]_vars
SpecSched == Init /\ [][NextSched]_vars

\* ------------------------------------------------------------- properties
SetupPcs == {"start", "s3_mkdir", "s3_classes", "s3_samples", "s3_return",
             "local_classes", "log_init", "hyper", "hyper_build", "num_samples",
             "dataloader"}
LoopPcs == {"epoch_head", "trn", "trn_done", "val", "ckpt", "tst", "done"}

\* C1: an epoch whose validation loss is strictly less than every earlier
\* validation loss of the run (the first epoch included) writes the checkpoint
\* exactly once; any other epoch writes it zero times.
C1_CheckpointIffBelowAllEarlier ==
    saved # None =>
        saved = (IF ~IsLoss(valMin) \/ Lt(lastVal, valMin) THEN 1 ELSE 0)

\* C2: when class weights are given and their number differs from num_classes,
\* set_hyperparameters ends with verify_weights' ValueError and neither the loss
\* function nor the optimizer nor the scheduler has been constructed; when the
\* numbers are equal verify_weights raises nothing.
C2_WeightMismatchRaisesBeforeLoss ==
    /\ (class_weights # None /\ class_weights # num_classes) =>
           /\ pc = "aborted" /\ err = "ValueError: class weights"
           /\ ~criterion /\ ~optimizer /\ ~lr_scheduler
    /\ (class_weights = None \/ class_weights = num_classes) =>
           err # "ValueError: class weights"
C2_Witness ==
    /\ class_weights # None /\ class_weights # num_classes
    /\ pc = "aborted" /\ err = "ValueError: class weights"

\* C3: in evaluation, report_classification has run, of the batches processed so
\* far, exactly on the multiples of the interval k for 'val' with k configured
\* (k >= 1), on none for 'val' without an interval, and on every one for 'tst'.
MultiplesBelow(k, n) == {i \in 0..(n - 1) : \E m \in 0..n : i = m * k}
C4_TrainLossIsSampleWeightedMean ==
    (pc = "trn_done" /\ seenCnt > 0) =>
        meter.avg[1] * seenCnt = seenSum * meter.avg[2]

\* C5: the scheduler is stepped once per finished training epoch, after the
\* epoch's last optimizer step, whatever the number of batches: it has been
\* stepped e times while epoch e trains and e + 1 times once it has trained, and
\* evaluation steps neither the scheduler nor the optimizer.
C5_SchedulerOncePerEpoch ==
    LET T == LoaderLen("trn") IN
    /\ pc \in SetupPcs => schedSteps = 0 /\ optSteps = 0
    /\ pc = "trn" => schedSteps = epoch /\ optSteps = epoch * T + index
    /\ pc \in {"trn_done", "val", "ckpt"} =>
           schedSteps = epoch + 1 /\ optSteps = (epoch + 1) * T
    /\ pc = "epoch_head" => schedSteps = epoch /\ optSteps = epoch * T
    /\ pc \in {"tst", "done"} =>
           schedSteps = num_epochs /\ optSteps = num_epochs * T
C5_Witness ==
    /\ pc = "ckpt" /\ epoch = 1 /\ schedSteps = 2
    /\ LoaderLen("trn") = 0 /\ LoaderLen("val") > 0

\* The number of data rows, and the j-th data row (from 1), of a run of
\* num_epochs epochs with T, V and S batches per pass.
ExpectedLen ==
    num_epochs * (LoaderLen("trn") + LoaderLen("val")) + LoaderLen("tst")
ExpectedRow(j) ==
    LET E == num_epochs
        T == LoaderLen("trn")
        V == LoaderLen("val")
        S == LoaderLen("tst")
    IN  IF j - 1 < E * (T + V)
        THEN IF (j - 1) % (T + V) < T
             THEN <<(j - 1) \div (T + V), "trn", (j - 1) % (T + V), T>>
             ELSE <<(j - 1) \div (T + V), "val", ((j - 1) % (T + V)) - T, V>>
        ELSE <<E, "tst", j - 1 - E * (T + V), S>>
\* progress.log is base followed by the first data rows expected.
LogIsBaseThenRows(base) ==
    /\ Len(progress) >= Len(base)
    /\ \A i \in 1..Len(base) :
           progress[i][2] = base[i][2] /\ progress[i] = base[i]
    /\ Len(progress) - Len(base) <= ExpectedLen
    /\ \A j \in 1..(Len(progress) - Len(base)) :
           progress[Len(base) + j] = ExpectedRow(j)

\* C6 as stated: after a run that completes, progress.log holds one header row
\* followed by the E*(T+V)+S data rows, in order.
C6_LogIsHeaderThenRows ==
    pc = "done" =>
        LogIsBaseThenRows(<<Header>>) /\ Len(progress) = 1 + ExpectedLen

\* C6 as amended: progress.log holds what it held when the run started (the
\* header alone when the file did not exist, the earlier rows and no new header
\* when it did) followed by the data rows written so far, which are the first
\* rows of the E*(T+V)+S expected ones, and all of them once the run completes.
C6_LogIsStartContentThenRows ==
    LET base == IF logKept THEN OldLog ELSE <<Header>> IN
    /\ pc \in LoopPcs \cup {"hyper", "hyper_build", "num_samples", "dataloader"} =>
           LogIsBaseThenRows(base)
    /\ pc = "done" => Len(progress) = Len(base) + ExpectedLen
C6_Witness ==
    /\ pc = "done" /\ logKept /\ num_epochs = 2
    /\ LoaderLen("trn") = 2 /\ LoaderLen("val") = 1 /\ LoaderLen("tst") = 1
    /\ Len(progress) = Len(OldLog) + 7

\* C7: for a classification task classes.csv is written exactly once per run,
\* before the first training step, with or without a bucket.
C7_ClassesWrittenOnce ==
    /\ classesWrites <= 1
    /\ (task = "classification" /\ pc \in LoopPcs) => classesWrites = 1

\* C8: when the class folders found differ in number from num_classes, or a
\* configured sample count exceeds the samples of the archive, or the task is
\* neither classification nor segmentation, no training batch is processed, no
\* optimizer or scheduler step is taken and no checkpoint is written, and the
\* aborted run takes no further step.
C8_ConfigErrorAbortsBeforeTraining ==
    /\ (\/ err \in {"AssertionError", "IndexError", "ValueError: task"}
        \/ (task # "" /\ task \notin {"classification", "segmentation"})) =>
           /\ trnBatches = 0 /\ optSteps = 0 /\ schedSteps = 0 /\ ckptWrites = 0
           /\ pc \in SetupPcs \cup {"aborted"}
    /\ pc = "aborted" => ~ENABLED Next
C8_Witness ==
    /\ pc = "aborted" /\ err = "IndexError" /\ criterion /\ trnBatches = 0
    /\ cfg_samples > file_num_samples

\* C9: a run that starts with the configured output directory absent creates it
\* and goes on to write its logs and checkpoint there, with or without a bucket.
C9_MissingOutputDirCreated ==
    (task # "" /\ startDir = "absent") =>
        /\ err \notin {"FileNotFoundError: classes.csv",
                       "FileNotFoundError: progress.log"}
        /\ progress # <<>> => output_path = "cfg"

\* The split whose count get_num_samples has just resolved.
JustResolved == pc \in {"num_samples", "dataloader"} /\ nsIdx > 1
LastSplit == Splits[nsIdx - 1]

\* C10 as stated: a configured count that does not exceed the number available
\* is the resolved count, with no IndexError; one that exceeds it raises
\* IndexError; an unset count resolves to the number available; a segmentation's
\* loaders are built with the resolved counts.
C10_ConfiguredCountResolves ==
    /\ JustResolved =>
           IF cfg_samples # None
           THEN cfg_samples <= file_num_samples
                /\ num_samples[LastSplit] = cfg_samples
           ELSE num_samples[LastSplit] = file_num_samples
    /\ err = "IndexError" =>
           cfg_samples # None /\ file_num_samples # None
           /\ cfg_samples > file_num_samples
    /\ (task = "segmentation" /\ pc \in LoopPcs) => dsLen = num_samples

\* C10 as amended: a configured count other than 0 that does not exceed the
\* number available is the resolved count, with no IndexError; one that exceeds
\* it raises IndexError; an unset count, or a configured count of 0, resolves to
\* the number available; a segmentation's loaders are built with the resolved
\* counts.
C10_NonZeroCountResolves ==
    /\ JustResolved =>
           IF cfg_samples # None /\ cfg_samples # 0
           THEN cfg_samples <= file_num_samples
                /\ num_samples[LastSplit] = cfg_samples
           ELSE num_samples[LastSplit] = file_num_samples
    /\ err = "IndexError" =>
           cfg_samples # None /\ file_num_samples # None
           /\ cfg_samples > file_num_samples
    /\ (pc = "aborted" /\ cfg_samples # None /\ file_num_samples # None
        /\ cfg_samples > file_num_samples) => err = "IndexError"
    /\ (task = "segmentation" /\ pc \in LoopPcs) => dsLen = num_samples
C10_Witness ==
    /\ JustResolved /\ task = "segmentation"
    /\ cfg_samples = 2 /\ file_num_samples = 3 /\ num_samples[LastSplit] = 2

\* C11: a run that completes its epoch loop loads the checkpoint back exactly
\* once, between the last epoch and the evaluation on 'tst'; the file loaded was
\* written by this run, and the model evaluated on 'tst' is that of the epoch
\* with the best validation loss; a checkpoint that this run never wrote is never
\* loaded, and the load never fails for want of one.
C11_RestoresOwnBestOnce ==
    /\ err # "FileNotFoundError: checkpoint.pth.tar"
    /\ pc \in SetupPcs \cup {"epoch_head", "trn", "trn_done", "val", "ckpt"} =>
           restores = 0
    /\ pc \in {"tst", "done"} =>
           /\ restores = 1
           /\ checkpoint.own
           /\ model_from = valMinEpoch

\* C12: when step_size is unset in the configuration and the framework's default
\* is not an integer, the scheduler is constructed with num_epochs + 1, and the
\* learning rate has not been decayed at any training step, nor after the last
\* epoch; when step_size is set, the scheduler is constructed with the
\* configured value.
C12_UnsetStepSizeNeverDecays ==
    lr_scheduler =>
        /\ (step_cfg = None /\ step_default = None) =>
               /\ step_size = num_epochs + 1
               /\ StepLRDecays(schedSteps, step_size) = 0
        /\ step_cfg # None => step_size = step_cfg
C12_Witness ==
    /\ pc = "done" /\ step_cfg = None /\ step_default = None
    /\ num_epochs = MaxEpochs /\ schedSteps = num_epochs /\ trnBatches > 0
    /\ step_size = num_epochs + 1

\* The validation losses main has compared with best_loss so far: their least
\* value and the earliest epoch that attained it.
ComparedMin == IF pc = "ckpt" THEN valMin ELSE MinLoss(valMin, lastVal)
ComparedMinEpoch ==
    IF pc = "ckpt" THEN valMinEpoch
    ELSE MinLossEpoch(valMin, valMinEpoch, lastVal, epoch - 1)
\* The tracker and the latest checkpoint agree with the losses compared.
BestLossTracksMin ==
    pc \in LoopPcs =>
        /\ IF IsLoss(ComparedMin) /\ Lt(ComparedMin, <<InitialBestLoss, 1>>)
           THEN Eq(best_loss, ComparedMin)
           ELSE best_loss = <<InitialBestLoss, 1>>
        /\ ckptWrites > 0 =>
               /\ checkpoint.exists /\ checkpoint.own
               /\ Eq(checkpoint.best_loss, best_loss)
               /\ checkpoint.epoch = ComparedMinEpoch

\* A step of the epoch loop does not raise the tracker.
BestLossNotRaised == (pc \in LoopPcs) => ~Lt(best_loss, best_loss')

\* C13: in the epoch loop the best-loss tracker never increases; after every
\* epoch it is the least of 999 and the validation losses of the epochs so far;
\* and once this run has written a checkpoint, the best_loss stored in the file
\* is the tracker and the epoch stored is the earliest one that attained it.
C13_BestLossIsRunningMin ==
    /\ []BestLossTracksMin
    /\ [][BestLossNotRaised]_vars
C13_Witness ==
    /\ pc = "epoch_head" /\ epoch = 2 /\ saved = 0
    /\ ckptWrites = 1 /\ checkpoint.epoch = 0
    /\ Eq(lastVal, best_loss) /\ Eq(valMin, best_loss)
====
